---- MODULE Spec2Model ----
(***************************************************************************)
(* Model of download_pdb.py: extraction of the PDB identity from the debug *)
(* directory of a PE image (extract_pdb_info), the symbol-store request    *)
(* and its status mapping (download_pdb), and the pipeline that chains     *)
(* them (main).                                                            *)
(*                                                                         *)
(* Text (str) is a sequence of one-character strings, bytes is a sequence  *)
(* of integers 0..255.  A 32-bit unsigned field is the record              *)
(* [hi |-> h, lo |-> l] of its two 16-bit halves (value h * 65536 + l),    *)
(* because such a value does not fit the model checker's integers.         *)
(***************************************************************************)
EXTENDS Integers, Sequences, FiniteSets, TLC

VARIABLES pc, pe, extracted, pdbinfo, pdbstore, url, gets, response,
          downloaded, sink, stdout

vars == <<pc, pe, extracted, pdbinfo, pdbstore, url, gets, response,
          downloaded, sink, stdout>>

(* Python None where a str or bytes is expected: no text, since a text    *)
(* holds one-character strings only.                                       *)
None == <<"None">>

(* an unbound name or an absent record.                                    *)
Unset == [kind |-> "unset"]

(* ------------------------------ bounds --------------------------------- *)

MaxNameLen == 3
MaxEntries == 2
MaxStoreTail == 2

(* ------------------------------ text ----------------------------------- *)

RECURSIVE SeqsUpTo(_, _)
SeqsUpTo(S, n) ==
    IF n = 0 THEN {<<>>}
    ELSE LET shorter == SeqsUpTo(S, n - 1)
         IN  shorter \cup {Append(s, x) : s \in {t \in shorter : Len(t) = n - 1}, x \in S}

Ascii ==
    <<"x00", "x01", "x02", "x03", "x04", "x05", "x06", "x07", "x08", "x09",
      "x0A", "x0B", "x0C", "x0D", "x0E", "x0F", "x10", "x11", "x12", "x13",
      "x14", "x15", "x16", "x17", "x18", "x19", "x1A", "x1B", "x1C", "x1D",
      "x1E", "x1F", " ", "!", "\"", "#", "$", "%", "&", "'", "(", ")", "*",
      "+", ",", "-", ".", "/", "0", "1", "2", "3", "4", "5", "6", "7", "8",
      "9", ":", ";", "<", "=", ">", "?", "@", "A", "B", "C", "D", "E", "F",
      "G", "H", "I", "J", "K", "L", "M", "N", "O", "P", "Q", "R", "S", "T",
      "U", "V", "W", "X", "Y", "Z", "[", "\\", "]", "^", "_", "x60", "a", "b",
      "c", "d", "e", "f", "g", "h", "i", "j", "k", "l", "m", "n", "o", "p",
      "q", "r", "s", "t", "u", "v", "w", "x", "y", "z", "{", "|", "}", "~",
      "x7F">>

(* bytes.decode(): a byte below 0x80 is the code point of that number; the *)
(* bytes 0xF8..0xFF start no UTF-8 sequence, so a buffer holding one does  *)
(* not decode (UnicodeDecodeError).  Multi-byte sequences are outside the  *)
(* byte alphabet of the model.                                             *)
Decodable(bs) == \A i \in 1..Len(bs) : bs[i] < 128

decode(bs) == [i \in 1..Len(bs) |-> Ascii[bs[i] + 1]]

(* str.rfind(c): the highest 0-based index holding c, -1 when absent.      *)
rfind(s, c) ==
    LET hits == {i \in 1..Len(s) : s[i] = c}
    IN  IF hits = {} THEN -1
        ELSE (CHOOSE i \in hits : \A j \in hits : j <= i) - 1

max(a, b) == IF a >= b THEN a ELSE b

(* s[k:] for a 0-based k within 0..len(s).                                 *)
SliceFrom(s, k) == SubSeq(s, k + 1, Len(s))

basename_slash_only(pdbfilename) ==
    LET last_slash == rfind(pdbfilename, "/")
    IN  IF last_slash = -1 THEN pdbfilename
        ELSE SliceFrom(pdbfilename, last_slash + 1)

basename(pdbfilename) ==
    LET last_slash == max(rfind(pdbfilename, "/"), rfind(pdbfilename, "\\"))
    IN  IF last_slash = -1 THEN pdbfilename
        ELSE SliceFrom(pdbfilename, last_slash + 1)

(* --------------------------- hex formatting ---------------------------- *)

UpperDigits == <<"0", "1", "2", "3", "4", "5", "6", "7", "8", "9",
                 "A", "B", "C", "D", "E", "F">>

LowerDigits == <<"0", "1", "2", "3", "4", "5", "6", "7", "8", "9",
                 "a", "b", "c", "d", "e", "f">>

(* format {:X} of an integer below 2^16: natural width, one 0 for zero.    *)
RECURSIVE FormatX(_)
FormatX(n) ==
    IF n < 16 THEN <<UpperDigits[n + 1]>>
    ELSE Append(FormatX(n \div 16), UpperDigits[(n % 16) + 1])

RECURSIVE Zeros(_)
Zeros(k) == IF k <= 0 THEN <<>> ELSE <<"0">> \o Zeros(k - 1)

(* zero fill to a minimum width; a longer text is never truncated.         *)
ZFill(s, w) == Zeros(w - Len(s)) \o s

(* format {:0wX} of an integer below 2^16.                                 *)
Format0X(n, w) == ZFill(FormatX(n), w)

(* format {:X} of a 32-bit value.                                          *)
FormatX32(v) ==
    IF v.hi = 0 THEN FormatX(v.lo)
    ELSE FormatX(v.hi) \o Format0X(v.lo, 4)

(* format {:08X} of a 32-bit value.                                        *)
Format08X32(v) == ZFill(FormatX32(v), 8)

(* bytes.hex(): two lowercase digits per byte.                             *)
RECURSIVE hex(_)
hex(bs) ==
    IF bs = <<>> THEN <<>>
    ELSE <<LowerDigits[(Head(bs) \div 16) + 1], LowerDigits[(Head(bs) % 16) + 1]>>
         \o hex(Tail(bs))

(* str.upper() on the characters hex() produces.                           *)
UpperChar(c) ==
    CASE c = "a" -> "A" [] c = "b" -> "B" [] c = "c" -> "C"
      [] c = "d" -> "D" [] c = "e" -> "E" [] c = "f" -> "F"
      [] OTHER -> c

upper(s) == [i \in 1..Len(s) |-> UpperChar(s[i])]

(* ----------------------------- extract_pdb_info ------------------------ *)

Raise(kind, arg) == [kind |-> kind, arg |-> arg, info |-> None]

Return(info) == [kind |-> "ok", arg |-> None, info |-> info]

PdbInfo(pdb_signature, pdbfilename) ==
    [pdb_signature |-> pdb_signature, pdbfilename |-> pdbfilename]

rsds_signature_padded_age(debug_entry) ==
    Format08X32(debug_entry.Signature_Data1)
        \o Format0X(debug_entry.Signature_Data2, 4)
        \o Format0X(debug_entry.Signature_Data3, 4)
        \o Format0X(debug_entry.Signature_Data4, 2)
        \o Format0X(debug_entry.Signature_Data5, 2)
        \o upper(hex(debug_entry.Signature_Data6))
        \o Format08X32(debug_entry.Age)

(* the format call of the RSDS branch.                                     *)
rsds_signature(debug_entry) ==
    Format08X32(debug_entry.Signature_Data1)
        \o Format0X(debug_entry.Signature_Data2, 4)
        \o Format0X(debug_entry.Signature_Data3, 4)
        \o Format0X(debug_entry.Signature_Data4, 2)
        \o Format0X(debug_entry.Signature_Data5, 2)
        \o upper(hex(debug_entry.Signature_Data6))
        \o FormatX32(debug_entry.Age)

entry_signature_legacy(debug_entry) ==
    IF debug_entry.CvSignature = "RSDS"
    THEN Return(rsds_signature(debug_entry))
    ELSE IF debug_entry.CvSignature = "01BN"
    THEN Return(FormatX32(debug_entry.Signature) \o FormatX32(debug_entry.Age))
    ELSE Raise("UnsupportedDebugEntryTypeError", debug_entry.CvSignature)

(* the branch on CvSignature: the signature text (in info) or the raise.   *)
entry_signature(debug_entry) ==
    IF debug_entry.CvSignature = "RSDS"
    THEN Return(rsds_signature(debug_entry))
    ELSE IF debug_entry.CvSignature = "01BN"
    THEN Raise("Exception", "found")
    ELSE Raise("UnsupportedDebugEntryTypeError", debug_entry.CvSignature)

(* the filename field: index -1 of an empty buffer raises IndexError, one  *)
(* trailing null byte is dropped, and the rest is decoded.                 *)
entry_filename(PdbFileName) ==
    IF Len(PdbFileName) = 0
    THEN Raise("IndexError", None)
    ELSE LET pdbfilename ==
                 IF PdbFileName[Len(PdbFileName)] = 0
                 THEN SubSeq(PdbFileName, 1, Len(PdbFileName) - 1)
                 ELSE PdbFileName
         IN  IF Decodable(pdbfilename)
             THEN Return(decode(pdbfilename))
             ELSE Raise("UnicodeDecodeError", None)

extract_entry(debug_entry) ==
    LET signature == entry_signature(debug_entry)
    IN  IF signature.kind # "ok" THEN signature
        ELSE LET pdbfilename == entry_filename(debug_entry.PdbFileName)
             IN  IF pdbfilename.kind # "ok" THEN pdbfilename
                 ELSE Return(PdbInfo(signature.info, pdbfilename.info))

extract_pdb_info_last_entry(image) ==
    IF ~image.has_debug \/ Len(image.DIRECTORY_ENTRY_DEBUG) = 0
    THEN Raise("NoDebugEntryException", None)
    ELSE extract_entry(
             image.DIRECTORY_ENTRY_DEBUG[Len(image.DIRECTORY_ENTRY_DEBUG)])

extract_pdb_info_no_len_check(image) ==
    IF ~image.has_debug
    THEN Raise("NoDebugEntryException", None)
    ELSE IF Len(image.DIRECTORY_ENTRY_DEBUG) = 0
    THEN Raise("IndexError", None)
    ELSE extract_entry(image.DIRECTORY_ENTRY_DEBUG[1])

extract_pdb_info(image) ==
    IF ~image.has_debug \/ Len(image.DIRECTORY_ENTRY_DEBUG) = 0
    THEN Raise("NoDebugEntryException", None)
    ELSE extract_entry(image.DIRECTORY_ENTRY_DEBUG[1])

(* ------------------------------- download_pdb --------------------------- *)

DefaultStore ==
    <<"h", "t", "t", "p", "s", ":", "/", "/", "m", "s", "d", "l", ".", "m",
      "i", "c", "r", "o", "s", "o", "f", "t", ".", "c", "o", "m", "/", "d",
      "o", "w", "n", "l", "o", "a", "d", "/", "s", "y", "m", "b", "o", "l",
      "s">>

endswith(s, c) == Len(s) > 0 /\ s[Len(s)] = c

download_url_no_strip(info, store) ==
    LET pdbstore1 == IF store = None THEN DefaultStore ELSE store
        pdbbasename == basename(info.pdbfilename)
    IN  pdbstore1 \o <<"/">> \o pdbbasename \o <<"/">> \o info.pdb_signature
            \o <<"/">> \o pdbbasename

download_url_full_name(info, store) ==
    LET pdbstore1 == IF store = None THEN DefaultStore ELSE store
        pdbstore2 == IF endswith(pdbstore1, "/")
                     THEN SubSeq(pdbstore1, 1, Len(pdbstore1) - 1)
                     ELSE pdbstore1
        pdbbasename == basename(info.pdbfilename)
    IN  pdbstore2 \o <<"/">> \o pdbbasename \o <<"/">> \o info.pdb_signature
            \o <<"/">> \o info.pdbfilename

(* the URL download_pdb requests for an identity and a store argument.     *)
download_url(info, store) ==
    LET pdbstore1 == IF store = None THEN DefaultStore ELSE store
        pdbstore2 == IF endswith(pdbstore1, "/")
                     THEN SubSeq(pdbstore1, 1, Len(pdbstore1) - 1)
                     ELSE pdbstore1
        pdbbasename == basename(info.pdbfilename)
    IN  pdbstore2 \o <<"/">> \o pdbbasename \o <<"/">> \o info.pdb_signature
            \o <<"/">> \o pdbbasename

download_result_not_found_default(status, body) ==
    IF status = 200 THEN Return(body)
    ELSE Raise("PdbNotFoundError", None)

(* the outcome of download_pdb for a response.                             *)
download_result(status, body) ==
    IF status = 404 THEN Raise("PdbNotFoundError", None)
    ELSE IF status = 200 THEN Return(body)
    ELSE Raise("UnexpectedReturnStatusError", status)

(* os.path.join of a non-empty directory and a name, POSIX rules.          *)
os_path_join(dir, name) ==
    IF Len(name) > 0 /\ name[1] = "/" THEN name
    ELSE IF endswith(dir, "/") THEN dir \o name
    ELSE dir \o <<"/">> \o name

(* ------------------------------- inputs --------------------------------- *)

U32(h, l) == [hi |-> h, lo |-> l]

Guids ==
    { [Data1 |-> U32(40069, 42807), Data2 |-> 15554, Data3 |-> 48170,
       Data4 |-> 122, Data5 |-> 185, Data6 |-> <<201, 56, 137, 82, 184, 248>>],
      [Data1 |-> U32(0, 26), Data2 |-> 0, Data3 |-> 15,
       Data4 |-> 0, Data5 |-> 10, Data6 |-> <<0, 1, 171, 0, 0, 15>>],
      [Data1 |-> U32(1, 0), Data2 |-> 256, Data3 |-> 65535,
       Data4 |-> 16, Data5 |-> 255, Data6 |-> <<255, 255, 255, 255, 255, 255>>] }

ExampleGuid == CHOOSE g \in Guids : g.Data2 = 15554

Ages == {U32(0, 0), U32(0, 1), U32(0, 2737), U32(1, 5), U32(65535, 65535)}

NameBytes == {0, 47, 92, 97, 255}

Names == SeqsUpTo(NameBytes, MaxNameLen)

SampleName == <<100, 92, 97, 46, 112, 0>>

RsdsEntry(guid, age, name) ==
    [CvSignature |-> "RSDS",
     Signature_Data1 |-> guid.Data1, Signature_Data2 |-> guid.Data2,
     Signature_Data3 |-> guid.Data3, Signature_Data4 |-> guid.Data4,
     Signature_Data5 |-> guid.Data5, Signature_Data6 |-> guid.Data6,
     Age |-> age, PdbFileName |-> name]

OtherEntry(tag) ==
    [CvSignature |-> tag, Signature |-> U32(0, 16170), Age |-> U32(0, 2),
     PdbFileName |-> SampleName]

OtherTags == {"01BN", "NB10", "NB11"}

SampleEntries ==
    {RsdsEntry(ExampleGuid, U32(0, 1), SampleName)}
        \cup {OtherEntry(tag) : tag \in OtherTags}

Directories ==
    SeqsUpTo(SampleEntries, MaxEntries)
        \cup {<<RsdsEntry(ExampleGuid, U32(0, 1), name)>> : name \in Names}
        \cup {<<RsdsEntry(guid, age, SampleName)>> : guid \in Guids, age \in Ages}

Images ==
    {[has_debug |-> FALSE, DIRECTORY_ENTRY_DEBUG |-> <<>>]}
        \cup {[has_debug |-> TRUE, DIRECTORY_ENTRY_DEBUG |-> d] : d \in Directories}

StoreRoot == <<"h", ":", "/", "/", "s">>

Stores ==
    {None, <<>>, <<"/">>} \cup {StoreRoot \o t : t \in SeqsUpTo({"/", "t"}, MaxStoreTail)}

Statuses == {200, 204, 301, 404, 500}

Bodies == {<<>>, <<77, 0>>}

Outputs == {None, <<"o">>}

OutputDirs == {None, <<"d">>}

(* --------------------------------- main --------------------------------- *)

Init ==
    /\ pc = "start"
    /\ pe \in Images
    /\ extracted = Unset
    /\ pdbinfo = Unset
    /\ pdbstore = None
    /\ url = None
    /\ gets = 0
    /\ response = Unset
    /\ downloaded = Unset
    /\ sink = Unset
    /\ stdout = <<>>

(* extract_pdb_info is awaited; the two classified failures are printed    *)
(* and main returns, any other exception leaves main uncaught.             *)
Extract ==
    /\ pc = "start"
    /\ LET r == extract_pdb_info(pe)
       IN  /\ extracted' = r
           /\ IF r.kind = "ok"
              THEN /\ pdbinfo' = r.info
                   /\ stdout' = stdout \o <<<<"PDB signature", r.info.pdb_signature>>,
                                             <<"PDB filename", r.info.pdbfilename>>>>
                   /\ pc' = "extracted"
              ELSE IF r.kind = "NoDebugEntryException"
              THEN /\ stdout' = Append(stdout, <<"no debug entry">>)
                   /\ pc' = "returned"
                   /\ UNCHANGED pdbinfo
              ELSE IF r.kind = "UnsupportedDebugEntryTypeError"
              THEN /\ stdout' = Append(stdout, <<"unsupported debug entry type", r.arg>>)
                   /\ pc' = "returned"
                   /\ UNCHANGED pdbinfo
              ELSE /\ pc' = "crashed"
                   /\ UNCHANGED <<pdbinfo, stdout>>
    /\ UNCHANGED <<pe, pdbstore, url, gets, response, downloaded, sink>>

(* args.no_download is set: nothing more is done.                          *)
NoDownload ==
    /\ pc = "extracted"
    /\ pc' = "returned"
    /\ UNCHANGED <<pe, extracted, pdbinfo, pdbstore, url, gets, response,
                   downloaded, sink, stdout>>

(* download_pdb up to the GET of the session.                              *)
IssueGet ==
    /\ pc = "extracted"
    /\ \E store \in Stores :
           /\ pdbstore' = store
           /\ url' = download_url(pdbinfo, store)
    /\ gets' = gets + 1
    /\ pc' = "requested"
    /\ UNCHANGED <<pe, extracted, pdbinfo, response, downloaded, sink, stdout>>

(* the response arrives; download_pdb returns or raises, and main prints   *)
(* and returns on either of the two download failures.                     *)
Respond ==
    /\ pc = "requested"
    /\ \E status \in Statuses, body \in Bodies :
           LET r == download_result(status, body)
           IN  /\ response' = [status |-> status, body |-> body]
               /\ downloaded' = r
               /\ IF r.kind = "ok"
                  THEN /\ pc' = "downloaded"
                       /\ UNCHANGED stdout
                  ELSE IF r.kind = "PdbNotFoundError"
                  THEN /\ pc' = "returned"
                       /\ stdout' = Append(stdout, <<"404">>)
                  ELSE /\ pc' = "returned"
                       /\ stdout' = Append(stdout, <<"unexpected status", r.arg>>)
    /\ UNCHANGED <<pe, extracted, pdbinfo, pdbstore, url, gets, sink>>

(* the output path is chosen and the bytes are written; open() refuses an  *)
(* empty path and a path holding a null character.                         *)
WritePdb ==
    /\ pc = "downloaded"
    /\ \E output \in Outputs, output_dir \in OutputDirs :
           LET filename == IF output # None /\ output # <<>>
                           THEN output
                           ELSE basename(pdbinfo.pdbfilename)
               filepath == IF output_dir # None /\ output_dir # <<>>
                           THEN os_path_join(output_dir, filename)
                           ELSE filename
           IN  IF filepath = <<>> \/ \E i \in 1..Len(filepath) : filepath[i] = "x00"
               THEN /\ pc' = "crashed"
                    /\ UNCHANGED <<sink, stdout>>
               ELSE /\ sink' = [filepath |-> filepath, data |-> downloaded.info]
                    /\ stdout' = Append(stdout, <<"PDB written to", filepath>>)
                    /\ pc' = "returned"
    /\ UNCHANGED <<pe, extracted, pdbinfo, pdbstore, url, gets, response, downloaded>>

Next == Extract \/ NoDownload \/ IssueGet \/ Respond \/ WritePdb

Spec == Init /\ [][Next]_vars

(* ------------------------------ properties ------------------------------ *)

HasEntries == pe.has_debug /\ Len(pe.DIRECTORY_ENTRY_DEBUG) > 0

FirstEntry == pe.DIRECTORY_ENTRY_DEBUG[1]

Separators == {"/", "\\"}

HasSeparator(s) == \E i \in 1..Len(s) : s[i] \in Separators

(* b is what follows the last separator of f, or f when it has none.       *)
IsLastSegment(f, b) ==
    \E k \in 0..Len(f) :
        /\ b = SubSeq(f, k + 1, Len(f))
        /\ ~HasSeparator(b)
        /\ IF k = 0 THEN ~HasSeparator(f) ELSE f[k] \in Separators

LastSegment(f) ==
    LET k == CHOOSE j \in 0..Len(f) :
                 /\ \A i \in (j + 1)..Len(f) : f[i] \notin Separators
                 /\ j > 0 => f[j] \in Separators
    IN  [i \in 1..(Len(f) - k) |-> f[k + i]]

IsUpperHex(s) == \A i \in 1..Len(s) : \E d \in 1..16 : UpperDigits[d] = s[i]

DigitVal(c) == (CHOOSE d \in 1..16 : UpperDigits[d] = c) - 1

RECURSIVE HexVal(_)
HexVal(s) ==
    IF s = <<>> THEN 0
    ELSE HexVal(SubSeq(s, 1, Len(s) - 1)) * 16 + DigitVal(s[Len(s)])

HexLen16(n) == CHOOSE k \in 1..4 : n < 16 ^ k /\ (k = 1 \/ n >= 16 ^ (k - 1))

HexLen32(v) == IF v.hi = 0 THEN HexLen16(v.lo) ELSE 4 + HexLen16(v.hi)

(* the text s is the hexadecimal numeral of the 32-bit value v.            *)
HexDenotes32(s, v) ==
    IF Len(s) <= 4 THEN v.hi = 0 /\ HexVal(s) = v.lo
    ELSE /\ HexVal(SubSeq(s, 1, Len(s) - 4)) = v.hi
         /\ HexVal(SubSeq(s, Len(s) - 3, Len(s))) = v.lo

ExampleSignature ==
    <<"9", "C", "8", "5", "A", "7", "3", "7", "3", "C", "C", "2", "B", "C",
      "2", "A", "7", "A", "B", "9", "C", "9", "3", "8", "8", "9", "5", "2",
      "B", "8", "F", "8", "1">>

(* no two adjacent slashes from the second slash of the first :// on (from *)
(* the start when there is no ://).                                        *)
NoDoubleSlashAfterScheme(u) ==
    LET seps == {i \in 1..(Len(u) - 2) :
                     u[i] = ":" /\ u[i + 1] = "/" /\ u[i + 2] = "/"}
        start == IF seps = {} THEN 1
                 ELSE (CHOOSE i \in seps : \A j \in seps : i <= j) + 2
    IN  \A i \in start..(Len(u) - 1) : ~(u[i] = "/" /\ u[i + 1] = "/")

StripOneNull(bs) ==
    IF Len(bs) > 0 /\ bs[Len(bs)] = 0
    THEN [i \in 1..(Len(bs) - 1) |-> bs[i]]
    ELSE bs

(* C1: when extraction fails (no or empty debug directory, a first entry   *)
(* whose tag is not RSDS, the 01BN tag included, or any other failure of   *)
(* extract_pdb_info), main has ended, no GET was issued, no URL was built  *)
(* and nothing was written.                                                *)
C1_NoFetchAfterFailedExtraction ==
    (/\ pc # "start"
     /\ \/ ~HasEntries
        \/ FirstEntry.CvSignature # "RSDS"
        \/ extracted.kind # "ok")
    => /\ pc \in {"returned", "crashed"}
       /\ gets = 0
       /\ url = None
       /\ response = Unset
       /\ sink = Unset

C1_Witness ==
    /\ pc = "crashed"
    /\ HasEntries
    /\ FirstEntry.CvSignature = "01BN"
    /\ extracted.kind = "Exception"
    /\ gets = 0

(* C2: once the response has arrived the outcome of download_pdb depends   *)
(* on the status only: 200 returns the body unchanged, 404 raises          *)
(* PdbNotFoundError, any other status s raises                             *)
(* UnexpectedReturnStatusError(s); the body is returned exactly when       *)
(* nothing is raised, and what is written is the body.                     *)
C2_StatusDeterminesOutcome ==
    response # Unset =>
        /\ response.status = 200 =>
               downloaded.kind = "ok" /\ downloaded.info = response.body
        /\ response.status = 404 => downloaded.kind = "PdbNotFoundError"
        /\ response.status \notin {200, 404} =>
               /\ downloaded.kind = "UnexpectedReturnStatusError"
               /\ downloaded.arg = response.status
        /\ downloaded.kind \in {"ok", "PdbNotFoundError", "UnexpectedReturnStatusError"}
        /\ (downloaded.kind = "ok") <=> (response.status = 200)
        /\ sink # Unset => sink.data = response.body

C2_Witness ==
    /\ response # Unset
    /\ response.status = 500
    /\ downloaded.kind = "UnexpectedReturnStatusError"
    /\ downloaded.arg = 500
    /\ pc = "returned"

(* C3 (as claimed): a first entry tagged 01BN makes extract_pdb_info raise *)
(* UnsupportedDebugEntryTypeError carrying 01BN, which main handles like   *)
(* any other unsupported tag (prints and returns).                         *)
C3_LegacyTagIsUnsupported ==
    (pc # "start" /\ HasEntries /\ FirstEntry.CvSignature = "01BN")
    => /\ extracted.kind = "UnsupportedDebugEntryTypeError"
       /\ extracted.arg = "01BN"
       /\ pdbinfo = Unset
       /\ pc = "returned"

(* C4: a first entry whose tag is neither RSDS nor 01BN makes              *)
(* extract_pdb_info raise UnsupportedDebugEntryTypeError carrying the tag  *)
(* of that first entry, and no PdbInfo is produced, whatever the later     *)
(* entries are.                                                            *)
C4_UnsupportedCarriesFirstTag ==
    (pc # "start" /\ HasEntries /\ FirstEntry.CvSignature \notin {"RSDS", "01BN"})
    => /\ extracted.kind = "UnsupportedDebugEntryTypeError"
       /\ extracted.arg = FirstEntry.CvSignature
       /\ extracted.info = None
       /\ pdbinfo = Unset

C4_Witness ==
    /\ pc = "returned"
    /\ Len(pe.DIRECTORY_ENTRY_DEBUG) = 2
    /\ FirstEntry.CvSignature = "NB10"
    /\ pe.DIRECTORY_ENTRY_DEBUG[2].CvSignature = "RSDS"
    /\ extracted.kind = "UnsupportedDebugEntryTypeError"
    /\ extracted.arg = "NB10"

(* C5: an image without a debug directory, or with an empty one, makes     *)
(* extract_pdb_info raise NoDebugEntryException: main handles it, nothing  *)
(* unclassified is raised and no PdbInfo is produced.                      *)
C5_NoDebugEntry ==
    (pc # "start" /\ ~HasEntries)
    => /\ extracted.kind = "NoDebugEntryException"
       /\ extracted.info = None
       /\ pdbinfo = Unset
       /\ pc = "returned"

C5_Witness ==
    /\ pc = "returned"
    /\ pe.has_debug
    /\ Len(pe.DIRECTORY_ENTRY_DEBUG) = 0
    /\ extracted.kind = "NoDebugEntryException"

(* C6 (as claimed): for a custom store URL that ends with a slash, however *)
(* many, the requested URL has no double slash after the scheme separator. *)
C6_NoDoubleSlash ==
    (gets > 0 /\ pdbstore # None /\ endswith(pdbstore, "/"))
    => NoDoubleSlashAfterScheme(url)

(* C6 (amended): for a custom store URL that ends with a slash, exactly    *)
(* one trailing slash is stripped before the segments are appended; when   *)
(* the store URL ends with exactly one slash and has no other double slash *)
(* after the scheme separator, and the basename is not empty, the          *)
(* requested URL has no double slash after the scheme separator.           *)
C6_OneSlashStripped ==
    (gets > 0 /\ pdbstore # None /\ endswith(pdbstore, "/"))
    => LET n == Len(pdbstore)
           base == LastSegment(pdbinfo.pdbfilename)
       IN  /\ Len(url) = (n - 1) + 3 + 2 * Len(base) + Len(pdbinfo.pdb_signature)
           /\ SubSeq(url, 1, n - 1) = SubSeq(pdbstore, 1, n - 1)
           /\ url[n] = "/"
           /\ SubSeq(url, n + 1, n + Len(base)) = base
           /\ (/\ n > 1 => pdbstore[n - 1] # "/"
               /\ NoDoubleSlashAfterScheme(pdbstore)
               /\ base # <<>>)
              => NoDoubleSlashAfterScheme(url)

C6_Witness ==
    /\ gets > 0
    /\ pdbstore = StoreRoot \o <<"/">>
    /\ LastSegment(pdbinfo.pdbfilename) # <<>>
    /\ SubSeq(url, 1, Len(StoreRoot) + 2) = StoreRoot \o <<"/", "a">>
    /\ NoDoubleSlashAfterScheme(url)

(* C7 (as claimed): the requested URL is store/base/signature/base with    *)
(* store the supplied store argument as it is (the default when none).     *)
C7_UrlFromStoreAsSupplied ==
    gets > 0 =>
        LET store == IF pdbstore = None THEN DefaultStore ELSE pdbstore
            base == LastSegment(pdbinfo.pdbfilename)
        IN  url = store \o <<"/">> \o base \o <<"/">> \o pdbinfo.pdb_signature
                      \o <<"/">> \o base

(* C7 (amended): the requested URL is store/base/signature/base, where     *)
(* store is the supplied store argument (the default when none) with one   *)
(* trailing slash removed when it ends with a slash, base is the basename  *)
(* of the filename in both places and the signature is unchanged.          *)
C7_UrlFromStrippedStore ==
    gets > 0 =>
        LET supplied == IF pdbstore = None THEN DefaultStore ELSE pdbstore
            n == Len(supplied)
            store == IF n > 0 /\ supplied[n] = "/"
                     THEN [i \in 1..(n - 1) |-> supplied[i]]
                     ELSE supplied
            base == LastSegment(pdbinfo.pdbfilename)
        IN  url = store \o <<"/">> \o base \o <<"/">> \o pdbinfo.pdb_signature
                      \o <<"/">> \o base

C7_Witness ==
    /\ gets > 0
    /\ pdbstore = None
    /\ pdbinfo.pdbfilename = <<"d", "\\", "a", ".", "p">>
    /\ pdbinfo.pdb_signature = ExampleSignature
    /\ url = DefaultStore \o <<"/", "a", ".", "p", "/">> \o ExampleSignature
                 \o <<"/", "a", ".", "p">>

(* C8: basename() of the filename of every identity is the part after the  *)
(* last slash or backslash, whichever is later, and the whole filename     *)
(* when it has neither; it holds no separator, and the filename of the     *)
(* identity stays what extraction produced.                                *)
C8_Basename ==
    pdbinfo # Unset =>
        /\ IsLastSegment(pdbinfo.pdbfilename, basename(pdbinfo.pdbfilename))
        /\ ~HasSeparator(basename(pdbinfo.pdbfilename))
        /\ ~HasSeparator(pdbinfo.pdbfilename) =>
               basename(pdbinfo.pdbfilename) = pdbinfo.pdbfilename
        /\ pdbinfo.pdbfilename = extracted.info.pdbfilename

C8_Witness ==
    /\ pc = "requested"
    /\ pdbinfo.pdbfilename = <<"/", "\\", "a">>
    /\ basename(pdbinfo.pdbfilename) = <<"a">>

(* C9: the signature extracted from an RSDS first entry is Data1 as 8,     *)
(* Data2 as 4, Data3 as 4, Data4 as 2, Data5 as 2 uppercase hex digits,    *)
(* the 6 bytes of Data6 as 12, then Age in uppercase hex at its natural    *)
(* width (one 0 for zero): 32 characters plus the hex length of Age; the   *)
(* example of the documentation gives 9C85A7373CC2BC2A7AB9C9388952B8F81.   *)
C9_RsdsSignature ==
    (pc # "start" /\ HasEntries /\ FirstEntry.CvSignature = "RSDS"
         /\ extracted.kind = "ok")
    => LET sig == extracted.info.pdb_signature
           e == FirstEntry
           age == SubSeq(sig, 33, Len(sig))
       IN  /\ IsUpperHex(sig)
           /\ Len(sig) = 32 + HexLen32(e.Age)
           /\ HexDenotes32(SubSeq(sig, 1, 8), e.Signature_Data1)
           /\ HexVal(SubSeq(sig, 9, 12)) = e.Signature_Data2
           /\ HexVal(SubSeq(sig, 13, 16)) = e.Signature_Data3
           /\ HexVal(SubSeq(sig, 17, 18)) = e.Signature_Data4
           /\ HexVal(SubSeq(sig, 19, 20)) = e.Signature_Data5
           /\ \A i \in 1..6 :
                  HexVal(SubSeq(sig, 19 + 2 * i, 20 + 2 * i)) = e.Signature_Data6[i]
           /\ HexDenotes32(age, e.Age)
           /\ age[1] = "0" => age = <<"0">>
           /\ e.Age = U32(0, 0) => age = <<"0">>
           /\ (e.Age = U32(0, 1) /\ e.Signature_Data1 = ExampleGuid.Data1
                   /\ e.Signature_Data6 = ExampleGuid.Data6)
              => sig = ExampleSignature

C9_Witness ==
    /\ pc = "extracted"
    /\ FirstEntry.CvSignature = "RSDS"
    /\ FirstEntry.Age = U32(0, 1)
    /\ FirstEntry.Signature_Data1 = U32(40069, 42807)
    /\ pdbinfo.pdb_signature = ExampleSignature

(* C10 (as claimed): for an RSDS first entry and any filename bytes, the   *)
(* empty buffer included, extraction succeeds and the filename of the      *)
(* identity is the bytes with one trailing null removed, as text.          *)
C10_FilenameNeverFails ==
    (pc # "start" /\ HasEntries /\ FirstEntry.CvSignature = "RSDS")
    => /\ extracted.kind = "ok"
       /\ \A i \in 1..Len(FirstEntry.PdbFileName) : FirstEntry.PdbFileName[i] < 128
       /\ extracted.info.pdbfilename
              = [i \in 1..Len(StripOneNull(FirstEntry.PdbFileName)) |->
                     Ascii[StripOneNull(FirstEntry.PdbFileName)[i] + 1]]

====
